---- MODULE Spec2Model ----
(***************************************************************************)
(* Model of src/app.py: a Streamlit page guarded by one shared password    *)
(* (check_password), which sends a description of the day to a chat        *)
(* completion provider (get_poem) and renders the poem it returns (main).  *)
(*                                                                         *)
(* Python values are modelled as follows.                                  *)
(*   - An optional value is a sequence of length at most one: None is <<>> *)
(*     and the value x is <<x>>.                                           *)
(*   - Passwords and keys are TLA+ strings.                                *)
(*   - Texts the code takes apart or puts together (the day description,   *)
(*     the poem, str() of an exception, markup) are sequences of tokens;   *)
(*     a character is one token, and a character a TLA+ string cannot hold *)
(*     is the token "U+" and its code point.                               *)
(*   - An exception is the method resolution order of its class, as the    *)
(*     qualified names of the classes, and str() of it.                    *)
(*   - A format string is the sequence of its parts (see Literal).         *)
(* Streamlit runs the callback of a widget event, then the script (main).  *)
(* A run is one action up to the places where the script waits: the call   *)
(* of the provider in get_poem and the time.sleep after every frame of the *)
(* typewriter loop. The run goes on from there in a later action, other    *)
(* sessions act meanwhile, and the next event of the run's own session     *)
(* ends the run where it waits.                                            *)
(***************************************************************************)
EXTENDS Integers, Sequences, FiniteSets, TLC

\* ------------------------------------------------------------------ bounds
\* Number of browser sessions connected to the one server process in SpecMulti.
NumSessions == 2
\* Longest day description typed into the form, in characters.
MaxDayLen == 1
\* Longest completion text the provider returns, in characters.
MaxPoemLen == 1

\* ------------------------------------------------------------ Python values
\* Python's None, and a value that is not None.
None == <<>>
Some(x) == <<x>>

\* bool(s) of an optional str: None and "" are falsy.
TruthyStr(o) == o # None /\ o[1] # ""
\* bool(t) of an optional text (a sequence of tokens): None and the empty text are falsy.
TruthyText(o) == o # None /\ o[1] # <<>>

\* The characters str.strip() removes: those for which str.isspace() holds.
Whitespace ==
  { "\t", "\n", "U+000B", "\f", "\r", "U+001C", "U+001D", "U+001E", "U+001F", " ",
    "U+0085", "U+00A0", "U+1680", "U+2000", "U+2001", "U+2002", "U+2003", "U+2004",
    "U+2005", "U+2006", "U+2007", "U+2008", "U+2009", "U+200A", "U+2028", "U+2029",
    "U+202F", "U+205F", "U+3000" }

RECURSIVE lstrip(_)
lstrip(t) == IF t # <<>> /\ Head(t) \in Whitespace THEN lstrip(Tail(t)) ELSE t

RECURSIVE rstrip(_)
rstrip(t) ==
  IF t # <<>> /\ t[Len(t)] \in Whitespace THEN rstrip(SubSeq(t, 1, Len(t) - 1)) ELSE t

\* A faulty strip: it trims nothing.
strip_identity(t) == t

\* str.strip(): the text without its leading and trailing whitespace.
strip(t) == rstrip(lstrip(t))

\* str.replace('\n', '<br>').
replace_newlines(t) == [i \in DOMAIN t |-> IF t[i] = "\n" THEN "<br>" ELSE t[i]]

\* sub in seq, for sequences of tokens.
Contains(seq, sub) ==
  \E i \in 0..(Len(seq) - Len(sub)) : SubSeq(seq, i + 1, i + Len(sub)) = sub

\* All sequences over S of length at most n.
SeqsUpTo(S, n) == UNION {[1..k -> S] : k \in 0..n}

\* ------------------------------------------------------------ configuration
\* The persona list of get_poem.
poets ==
  << "Emily Dickinson", "T.S. Eliot", "Langston Hughes", "Sylvia Plath",
     "Seamus Heaney", "Shel Silverstein", "Lewis Carroll", "Robert Frost",
     "Ogden Nash", "Pablo Neruda", "Dr. Seuss" >>

\* An exception: the classes of type(e).__mro__ by their qualified names,
\* its own class first, and str(e).
Exception(mro, text) == [mro |-> mro, text |-> text]

\* What a computation gives: the exception it raises, or its value (a text).
Raised(mro, text) == [exc |-> Some(Exception(mro, text)), value |-> <<>>]
Value(text) == [exc |-> None, value |-> text]

\* The classes of the exceptions str.format and an index raise.
ExceptionMro == <<"builtins.Exception", "builtins.BaseException", "builtins.object">>
KeyErrorMro == <<"builtins.KeyError", "builtins.LookupError">> \o ExceptionMro
IndexErrorMro == <<"builtins.IndexError", "builtins.LookupError">> \o ExceptionMro

\* The names get_poem can pass to format: a poet of the list, or the fallback.
PoetNames == {poets[j] : j \in DOMAIN poets} \cup {"Unknown Poet"}

\* The table of a part of a format string that has none.
NoTable == <<>>

\* A format string is the sequence of its parts, in the order str.format
\* comes to them:
\*   Literal(text)  literal text, a doubled brace in it standing for the brace;
\*   Poet(conv)     the replacement field {poet}, {poet!s}, {poet!r} or
\*                  {poet!a}, conv being "", "s", "r" or "a";
\*   Keyword(name)  a well-formed replacement field whose argument is the
\*                  keyword name, an identifier other than poet;
\*   Position(n)    a well-formed replacement field whose argument is a
\*                  position: digits of value n, or none (automatic
\*                  numbering), for which n is 0;
\*   Other(table)   anything else str.format comes to (a field of poet with
\*                  an attribute, an index or a format spec, an unknown
\*                  conversion, a brace without its partner): table[p] is
\*                  what str.format gives there when the poet is p, the text
\*                  put in the result or the exception raised.
Part(kind, text, index, table) ==
  [kind |-> kind, text |-> text, index |-> index, table |-> table]
Literal(text) == Part("literal", text, 0, NoTable)
Poet(conv) == Part("poet", conv, 0, NoTable)
Keyword(name) == Part("keyword", name, 0, NoTable)
Position(n) == Part("position", "", n, NoTable)
Other(table) == Part("other", "", 0, table)

\* The built-in system prompt template.
DefaultTemplate ==
  << Literal("You are "), Poet(""),
     Literal(". Write a short poem based on the user's description of their day.") >>

\* The model identifier of the request.
Model == "gpt-5.1"

\* The thirteenth character of each poet's name, in the order of the list,
\* "" for a name that is shorter.
ThirteenthCharacters == <<"s", "", "h", "", "y", "t", "l", "", "", "", "">>

\* {poet[12]}: the thirteenth character of the poet's name, IndexError for
\* a name that is shorter.
ThirteenthCharacter ==
  [ p \in PoetNames |->
      IF \E j \in DOMAIN poets : poets[j] = p /\ ThirteenthCharacters[j] # ""
      THEN Value(<<ThirteenthCharacters[CHOOSE j \in DOMAIN poets : poets[j] = p]>>)
      ELSE Raised(IndexErrorMro, <<"string index out of range">>) ]

\* Templates an operator may configure: "You are {poet}, a grumpy critic.",
\* which formats; "You are {poet!r} in a {mood} mood.", which names a field
\* format() is not given (KeyError); "Write like {poet[12]}.", which formats
\* for the longer names only, without the name in the result; and the empty
\* string.
GoodTemplate == << Literal("You are "), Poet(""), Literal(", a grumpy critic.") >>
BadTemplate ==
  << Literal("You are "), Poet("r"), Literal(" in a "), Keyword("mood"), Literal(" mood.") >>
IndexTemplate == << Literal("Write like "), Other(ThirteenthCharacter), Literal(".") >>

\* The process environment: what os.getenv returns for each name. A
\* template that is not empty is configured there only together with a
\* password and a key.
Environments ==
  { e \in [ APP_PASSWORD : {None, Some(""), Some("a")},
            OPENAI_API_KEY : {None, Some("k")},
            POEM_SYSTEM_PROMPT :
              {None, Some(<<>>), Some(GoodTemplate), Some(IndexTemplate)} ] :
      TruthyText(e.POEM_SYSTEM_PROMPT)
        => (e.APP_PASSWORD = Some("a") /\ e.OPENAI_API_KEY = Some("k")) }

\* The Streamlit secret store: unavailable (no secrets file: every access
\* raises), or a mapping in which a name is present or not.
SecretStores ==
  { [ available |-> FALSE,
      APP_PASSWORD |-> None, OPENAI_API_KEY |-> None, POEM_SYSTEM_PROMPT |-> None ],
    [ available |-> TRUE,
      APP_PASSWORD |-> None, OPENAI_API_KEY |-> None, POEM_SYSTEM_PROMPT |-> None ],
    [ available |-> TRUE,
      APP_PASSWORD |-> Some("b"), OPENAI_API_KEY |-> Some("k2"),
      POEM_SYSTEM_PROMPT |-> Some(BadTemplate) ] }

VARIABLES
  env,            \* the process environment (os.environ after load_dotenv)
  secrets,        \* st.secrets
  session_state,  \* st.session_state of each session
  screen,         \* what each session's page shows after its last script run
  run,            \* what each session's last script run did
  failed          \* whether a generation of each session has failed so far

vars == <<env, secrets, session_state, screen, run, failed>>

\* The sessions of the server process.
Sessions == DOMAIN session_state

\* os.getenv(name).
getenv(name) == env[name]

\* `if name in st.secrets: cur = st.secrets[name]`, inside try/except: pass.
secrets_or(name, cur) ==
  IF ~secrets.available THEN cur
  ELSE IF secrets[name] # None THEN secrets[name] ELSE cur

\* A str setting read from the environment, then from the secret store.
lookup_str(name) ==
  LET v == getenv(name) IN IF ~TruthyStr(v) THEN secrets_or(name, v) ELSE v

\* The prompt template read from the environment, then from the secret store.
lookup_template ==
  LET v == getenv("POEM_SYSTEM_PROMPT") IN
  IF ~TruthyText(v) THEN secrets_or("POEM_SYSTEM_PROMPT", v) ELSE v

\* ------------------------------------------------------------- access gate
\* st.text_input(..., key="password"): the widget's value lives in
\* session_state["password"], "" until the user types one.
text_input(ss) == IF ss.password = None THEN [ss EXCEPT !.password = Some("")] ELSE ss

\* password_entered, the on_change callback of the password input.
password_entered(ss, correct_password) ==
  IF ss.password = correct_password
  THEN [ss EXCEPT !.password_correct = Some(TRUE), !.password = None]
  ELSE [ss EXCEPT !.password_correct = Some(FALSE)]

\* st.warning, st.error and st.info: a message on the page.
Warning(text) == [kind |-> "warning", text |-> text]
Error(text) == [kind |-> "error", text |-> text]
Info(text) == [kind |-> "info", text |-> text]

\* What check_password leaves behind: the value it returns, the state of the
\* gate, the session state (with the input's key if it rendered the input)
\* and the messages it showed.
gate_of(ret, state, ss, password_input, messages) ==
  [ ret |-> ret, gate |-> state,
    session_state |-> IF password_input THEN text_input(ss) ELSE ss,
    password_input |-> password_input, messages |-> messages ]

\* The warning of a gate without a configured password.
NotSetWarning == Warning(<<"App is password protected but APP_PASSWORD is not set.">>)
\* The error under the password input; its first character is U+1F615.
IncorrectError == Error(<<"U+1F615", " Password incorrect">>)

\* A faulty check_password: it renders the password input on every run,
\* also once the password is correct.
check_password_keeps_input(ss) ==
  LET correct_password == lookup_str("APP_PASSWORD") IN
  IF ~TruthyStr(correct_password)
  THEN gate_of(FALSE, "Misconfigured", ss, FALSE, <<NotSetWarning>>)
  ELSE IF ss.password_correct = None
  THEN gate_of(FALSE, "Locked", ss, TRUE, <<>>)
  ELSE IF ~ss.password_correct[1]
  THEN gate_of(FALSE, "Locked", ss, TRUE, <<IncorrectError>>)
  ELSE gate_of(TRUE, "Unlocked", ss, TRUE, <<>>)

\* A faulty check_password: it does not require APP_PASSWORD to be set.
check_password_no_config_check(ss) ==
  IF ss.password_correct = None
  THEN gate_of(FALSE, "Locked", ss, TRUE, <<>>)
  ELSE IF ~ss.password_correct[1]
  THEN gate_of(FALSE, "Locked", ss, TRUE, <<IncorrectError>>)
  ELSE gate_of(TRUE, "Unlocked", ss, FALSE, <<>>)

\* A faulty check_password: after a wrong password it shows the error
\* without the input.
check_password_no_retry_input(ss) ==
  LET correct_password == lookup_str("APP_PASSWORD") IN
  IF ~TruthyStr(correct_password)
  THEN gate_of(FALSE, "Misconfigured", ss, FALSE, <<NotSetWarning>>)
  ELSE IF ss.password_correct = None
  THEN gate_of(FALSE, "Locked", ss, TRUE, <<>>)
  ELSE IF ~ss.password_correct[1]
  THEN gate_of(FALSE, "Locked", ss, FALSE, <<IncorrectError>>)
  ELSE gate_of(TRUE, "Unlocked", ss, FALSE, <<>>)

\* check_password().
check_password(ss) ==
  LET correct_password == lookup_str("APP_PASSWORD") IN
  IF ~TruthyStr(correct_password)
  THEN gate_of(FALSE, "Misconfigured", ss, FALSE, <<NotSetWarning>>)
  ELSE IF ss.password_correct = None
  THEN gate_of(FALSE, "Locked", ss, TRUE, <<>>)
  ELSE IF ~ss.password_correct[1]
  THEN gate_of(FALSE, "Locked", ss, TRUE, <<IncorrectError>>)
  ELSE gate_of(TRUE, "Unlocked", ss, FALSE, <<>>)


\* ---------------------------------------------------- reflection generator
\* A faulty is_caught: the handler catches the provider's errors only.
is_caught_provider_only(mro) == \E j \in DOMAIN mro : mro[j] = "openai.OpenAIError"

\* `except Exception` catches an exception whose class has this method
\* resolution order: Exception is the class or one of its bases.
is_caught(mro) == \E j \in DOMAIN mro : mro[j] = "builtins.Exception"

\* What format(poet=poet) gives at one part of the format string when it
\* does not raise: the literal text, the poet's name, repr() of it (the
\* names hold no quote and are ASCII), or the text of the part's table.
format_value(part, poet) ==
  IF part.kind = "literal" THEN <<part.text>>
  ELSE IF part.kind = "other" THEN part.table[poet].value
  ELSE IF part.text \in {"r", "a"} THEN <<"'", poet, "'">>
  ELSE <<poet>>

\* What format(poet=poet) raises at one part of the format string, if it
\* does: IndexError for a position (no positional argument is given),
\* KeyError for a keyword other than poet, the exception of its table for
\* another part.
format_error(part, poet) ==
  IF part.kind = "position"
  THEN Some(Exception(IndexErrorMro,
                      << "Replacement index ", ToString(part.index),
                         " out of range for positional args tuple" >>))
  ELSE IF part.kind = "keyword"
  THEN Some(Exception(KeyErrorMro, <<"'", part.text, "'">>))
  ELSE IF part.kind = "other" THEN part.table[poet].exc
  ELSE None

\* The parts of the template from the j-th on, formatted and joined.
RECURSIVE format_from(_, _, _)
format_from(template, poet, j) ==
  IF j > Len(template) THEN <<>>
  ELSE format_value(template[j], poet) \o format_from(template, poet, j + 1)

\* The first part of the template that raises, 0 if none does.
first_error(template, poet) ==
  IF \A j \in DOMAIN template : format_error(template[j], poet) = None THEN 0
  ELSE CHOOSE j \in DOMAIN template :
         /\ format_error(template[j], poet) # None
         /\ \A k \in 1..(j - 1) : format_error(template[k], poet) = None

\* template.format(poet=poet): the formatted text, or the exception of the
\* first part that raises.
format(template, poet) ==
  IF first_error(template, poet) # 0
  THEN [ exc |-> format_error(template[first_error(template, poet)], poet),
         value |-> <<>> ]
  ELSE Value(format_from(template, poet, 1))

\* The template get_poem formats: the configured one, or the built-in one
\* if none is configured or it is empty.
system_prompt_template ==
  IF ~TruthyText(lookup_template) THEN DefaultTemplate ELSE lookup_template[1]

\* The system instruction of the request: the template with the poet's name.
system_instruction(selected_poet) == format(system_prompt_template, selected_poet)

\* The arguments of client.chat.completions.create.
chat_request(system_content, day_description) ==
  [ model |-> Model,
    messages |-> << [role |-> "system", content |-> system_content],
                    [role |-> "user", content |-> day_description] >> ]

\* response.choices[0].message.content of the provider's answer, or the
\* exception the call or the indexing raises.
completion(resp) ==
  IF resp.kind = "raise" THEN [exc |-> Some(resp.exc), content |-> None]
  ELSE IF resp.choices = <<>>
  THEN [exc |-> Some(Exception(IndexErrorMro, <<"list index out of range">>)),
        content |-> None]
  ELSE [exc |-> None, content |-> resp.choices[1]]

\* A faulty get_poem_try: it sends the request again when the call fails.
get_poem_try_retry(day_description, selected_poet, resp) ==
  LET content == system_instruction(selected_poet)
      request == chat_request(content.value, day_description)
      got == completion(resp)
  IN IF content.exc # None
     THEN [ exc |-> content.exc, value |-> <<>>, requests |-> <<>>, answers |-> <<>> ]
     ELSE IF got.exc # None
     THEN [ exc |-> got.exc, value |-> <<>>,
            requests |-> <<request, request>>, answers |-> <<resp, resp>> ]
     ELSE [ exc |-> None, value |-> <<got.content, Some(selected_poet)>>,
            requests |-> <<request>>, answers |-> <<resp>> ]

\* The body of the try statement of get_poem: the exception it raises or the
\* pair it returns, the requests it sent to the provider and their answers.
get_poem_try(day_description, selected_poet, resp) ==
  LET content == system_instruction(selected_poet)
      request == chat_request(content.value, day_description)
      got == completion(resp)
  IN IF content.exc # None
     THEN [ exc |-> content.exc, value |-> <<>>, requests |-> <<>>, answers |-> <<>> ]
     ELSE IF got.exc # None
     THEN [ exc |-> got.exc, value |-> <<>>,
            requests |-> <<request>>, answers |-> <<resp>> ]
     ELSE [ exc |-> None, value |-> <<got.content, Some(selected_poet)>>,
            requests |-> <<request>>, answers |-> <<resp>> ]

\* How get_poem ends once its try statement has run: `return` of the pair,
\* or the handler of `except Exception`, which shows the error and returns
\* (None, None); an exception of another class is let through (raised).
get_poem_end(body) ==
  IF body.exc = None
  THEN [ ret |-> body.value, raised |-> None,
         requests |-> body.requests, answers |-> body.answers, messages |-> <<>> ]
  ELSE IF is_caught(body.exc[1].mro)
  THEN [ ret |-> <<None, None>>, raised |-> None,
         requests |-> body.requests, answers |-> body.answers,
         messages |-> << Error(<<"Error generating poem: ">> \o body.exc[1].text) >> ]
  ELSE [ ret |-> <<>>, raised |-> body.exc,
         requests |-> body.requests, answers |-> body.answers, messages |-> <<>> ]

\* The error of a get_poem that finds no API key.
NoKeyError ==
  Error(<<"OpenAI API Key not found. Please set it in a .env file or Streamlit secrets.">>)

\* random.choice(poets) if poets else "Unknown Poet", i being the index drawn.
selected_poet(i) == IF poets # <<>> THEN poets[i] ELSE "Unknown Poet"

\* get_poem(day_description), with the index random.choice draws and the
\* provider's answer: the pair it returns (ret), the messages it shows, the
\* requests it sent with their answers, and the exception it lets through
\* (raised).
get_poem(day_description, i, resp) ==
  IF ~TruthyStr(lookup_str("OPENAI_API_KEY"))
  THEN [ ret |-> <<None, None>>, raised |-> None, requests |-> <<>>, answers |-> <<>>,
         messages |-> <<NoKeyError>> ]
  ELSE get_poem_end(get_poem_try(day_description, selected_poet(i), resp))

\* ------------------------------------------------------------------- page
\* The markup of a frame of the typewriter loop: the first k characters of
\* the poem.
frame_markup(poem, k) ==
  << "<div class=\"poem-container\">", "<div class=\"poem-text\">" >>
  \o replace_newlines(SubSeq(poem, 1, k))
  \o << "</div>", "</div>" >>

\* A faulty final_markup: the last frame of the typewriter loop, which
\* has no attribution line.
final_markup_no_attribution(poem, poet) == frame_markup(poem, Len(poem))

\* The markup of the last poem_placeholder.markdown call of main.
final_markup(poem, poet) ==
  << "<div class=\"poem-container\">", "<div class=\"poem-text\">" >>
  \o replace_newlines(poem)
  \o << "</div>", "<div class=\"attribution\">", "- ", poet, "</div>", "</div>" >>

\* A get_poem that was not called.
NotCalled ==
  [ret |-> <<>>, raised |-> None, requests |-> <<>>, answers |-> <<>>, messages |-> <<>>]

\* The script run that ends at st.stop(): check_password returned False.
stopped(gate) ==
  [ session_state |-> gate.session_state,
    screen |-> [ password_input |-> gate.password_input, form |-> FALSE,
                 messages |-> gate.messages, result |-> <<>> ],
    run |-> [ gate |-> gate.gate, submitted |-> FALSE, day_input |-> <<>>,
              get_poem_called |-> FALSE, requests |-> <<>>, answers |-> <<>>,
              ret |-> <<>>, raised |-> None ] ]

\* The message shown when the form is submitted without a text.
EmptyInputInfo == Info(<<"Please share a few words first.">>)

\* The script run past the gate, run to its end, the form rendered: on a
\* submission with a text (called) get_poem has answered got, and the poem
\* is rendered if both values of the pair are truthy. An exception get_poem
\* lets through ends the run there; Streamlit shows it on the page.
submission(gate, submitted, day_input, called, got) ==
  [ session_state |-> gate.session_state,
    screen |-> [ password_input |-> gate.password_input, form |-> TRUE,
                 messages |->
                   gate.messages \o
                   ( IF ~submitted THEN <<>>
                     ELSE IF ~called THEN <<EmptyInputInfo>>
                     ELSE IF got.raised # None
                     THEN << [kind |-> "exception", text |-> got.raised[1].text] >>
                     ELSE got.messages ),
                 result |->
                   IF called /\ got.raised = None
                      /\ TruthyText(got.ret[1]) /\ TruthyStr(got.ret[2])
                   THEN final_markup(got.ret[1][1], got.ret[2][1])
                   ELSE <<>> ],
    run |-> [ gate |-> gate.gate, submitted |-> submitted,
              day_input |-> IF submitted THEN day_input ELSE <<>>,
              get_poem_called |-> called, requests |-> got.requests,
              answers |-> got.answers, ret |-> got.ret, raised |-> got.raised ] ]

\* The script run past the gate: the form, and get_poem if the form was
\* submitted with a text that is not empty once stripped.
page(gate, submitted, day_input, i, resp) ==
  submission(gate, submitted, day_input,
             submitted /\ strip(day_input) # <<>>,
             IF submitted /\ strip(day_input) # <<>>
             THEN get_poem(day_input, i, resp) ELSE NotCalled)

\* The script run after check_password: st.stop() if it returned False.
after_gate(gate, submitted, day_input, i, resp) ==
  IF ~gate.ret THEN stopped(gate) ELSE page(gate, submitted, day_input, i, resp)

\* A faulty main: it goes on past the gate when check_password returns False.
main_no_stop(ss, submitted, day_input, i, resp) ==
  page(check_password(ss), submitted, day_input, i, resp)

\* main(), run to its end: the script run of a session whose state is ss;
\* submitted and day_input are what the form hands the run, i and resp are
\* what random.choice and the provider answer if get_poem is called.
main(ss, submitted, day_input, i, resp) ==
  after_gate(check_password(ss), submitted, day_input, i, resp)

\* ------------------------------------------------------------------ inputs
\* Strings a visitor types into the password input.
Passwords == {"", "a", "b", "c"}

\* Day descriptions a visitor submits: texts of spaces and a letter, and a
\* tab alone.
DayInputs == SeqsUpTo({" ", "x"}, MaxDayLen) \cup {<<"\t">>}

\* Completion texts the provider returns.
PoemTexts == SeqsUpTo({"a", "\n"}, MaxPoemLen)

\* What client.chat.completions.create does: it raises, or it returns a
\* response with no choice, with a choice without content, or with a text.
Raises ==
  { [kind |-> "raise", choices |-> <<>>, exc |-> e] :
      e \in { Exception(<<"openai.APIConnectionError", "openai.APIError",
                             "openai.OpenAIError">> \o ExceptionMro,
                           <<"Connection error.">>),
              Exception(<<"builtins.RuntimeError">> \o ExceptionMro, <<>>) } }
Responds(contents) ==
  { [kind |-> "response", choices |-> c, exc |-> Exception(<<>>, <<>>)] :
      c \in {<<>>} \cup {<<o>> : o \in contents} }
Responses == Raises \cup Responds({None} \cup {Some(t) : t \in PoemTexts})

\* The indices random.choice(poets) can draw: any poet of the list.
Choices == IF poets # <<>> THEN DOMAIN poets ELSE {0}

\* ------------------------------------------------------------------- state
\* st.session_state of a session that has not run the script yet.
NewSessionState == [password |-> None, password_correct |-> None]

\* The page of a session before its first script run.
BlankScreen == [password_input |-> FALSE, form |-> FALSE, messages |-> <<>>, result |-> <<>>]

\* A session before its first script run. A run's log says where the run is
\* (at): at its end, in the provider's call ("create") or in the sleep after
\* a frame ("sleep"), with the index drawn and the frames shown so far.
NoRun ==
  [ event |-> "none", typed |-> None, at |-> "end", choice |-> 0, frames |-> 0,
    gate |-> "none", submitted |-> FALSE,
    day_input |-> <<>>, get_poem_called |-> FALSE, requests |-> <<>>,
    answers |-> <<>>, ret |-> <<>>, raised |-> None ]

\* How the submission of run r failed, if it did: a wrong password, an empty
\* input, a missing API key, or a failed generation.
Failures(r) ==
  { k \in {"wrong_password", "empty_input", "no_api_key", "generation_failed"} :
      \/ k = "wrong_password" /\ r.event = "password" /\ r.gate # "Unlocked"
      \/ k = "empty_input" /\ r.submitted /\ ~r.get_poem_called
      \/ k = "no_api_key" /\ r.get_poem_called /\ ~TruthyStr(lookup_str("OPENAI_API_KEY"))
      \/ k = "generation_failed" /\ r.get_poem_called
           /\ TruthyStr(lookup_str("OPENAI_API_KEY"))
           /\ (r.raised # None \/ r.ret = <<None, None>>) }

\* The sessions S before any of them has run the script.
InitSessions(S) ==
  /\ session_state = [s \in S |-> NewSessionState]
  /\ screen = [s \in S |-> BlankScreen]
  /\ run = [s \in S |-> NoRun]
  /\ failed = [s \in S |-> FALSE]

\* One session, under any configuration of the process.
Init ==
  /\ env \in Environments
  /\ secrets \in SecretStores
  /\ InitSessions({1})

\* The log of a script run m after an event, run to its end; i is the index
\* random.choice drew (0 if the run did not come to draw one).
RunOf(event, typed, i, m) ==
  [event |-> event, typed |-> typed, at |-> "end", frames |-> 0, choice |-> i] @@ m.run

\* A faulty Store: the state is kept in one module-level variable that
\* every session's run writes, not in st.session_state.
Store_shared_state(s, ss, scr, r) ==
  /\ session_state' = [t \in Sessions |-> ss]
  /\ screen' = [screen EXCEPT ![s] = scr]
  /\ run' = [run EXCEPT ![s] = r]
  /\ failed' = [failed EXCEPT ![s] = @ \/ "generation_failed" \in Failures(r)]
  /\ UNCHANGED <<env, secrets>>

\* What a script run of session s leaves when it ends or waits: the
\* session's st.session_state and page; the configuration is not written.
Store(s, ss, scr, r) ==
  /\ session_state' = [session_state EXCEPT ![s] = ss]
  /\ screen' = [screen EXCEPT ![s] = scr]
  /\ run' = [run EXCEPT ![s] = r]
  /\ failed' = [failed EXCEPT ![s] = @ \/ "generation_failed" \in Failures(r)]
  /\ UNCHANGED <<env, secrets>>

\* The script run m of session s after an event has come to its end.
Ended(s, event, typed, i, m) ==
  Store(s, m.session_state, m.screen, RunOf(event, typed, i, m))

\* The script run of session s after an event that is not a submission of
\* the form (with the password typed, if it was one): the event's callback
\* has left the session's state ss. Such a run does not wait.
Script(s, event, typed, ss) ==
  Ended(s, event, typed, 0, main(ss, FALSE, <<>>, 0, CHOOSE r \in Raises : TRUE))

\* The run of a submitted form, whose end would be m, waits in the
\* provider's call (inside st.spinner): the form is on the page, the request
\* is sent, get_poem has not returned, and i is the index it drew.
InCreate(s, i, m) ==
  Store(s, m.session_state,
        [m.screen EXCEPT !.messages = <<>>, !.result = <<>>],
        [RunOf("form", None, i, m) EXCEPT
           !.at = "create", !.requests = <<m.run.requests[1]>>,
           !.answers = <<>>, !.ret = <<>>, !.raised = None])

\* The run of a submitted form, whose end would be m, waits in time.sleep
\* after the frame of the first k characters of the poem.
InSleep(s, i, k, m) ==
  Store(s, m.session_state,
        [m.screen EXCEPT !.result = frame_markup(m.run.ret[1][1], k)],
        [RunOf("form", None, i, m) EXCEPT !.at = "sleep", !.frames = k])

\* A browser opens the page: the first script run of the session.
Connect(s) ==
  /\ run[s].event = "none"
  /\ Script(s, "connect", None, session_state[s])

\* The visitor reruns the page without submitting anything; a run of the
\* session that is waiting ends there.
Rerun(s) ==
  /\ run[s].event # "none"
  /\ Script(s, "rerun", None, session_state[s])

\* The visitor enters v into the password input: Streamlit stores the
\* widget's value, runs on_change (password_entered), then the script.
SubmitPassword(s, v) ==
  /\ screen[s].password_input
  /\ session_state[s].password # Some(v)
  /\ Script(s, "password", Some(v),
            password_entered([session_state[s] EXCEPT !.password = Some(v)],
                             lookup_str("APP_PASSWORD")))

\* The run of a submitted form up to its first wait: m is the run as it
\* would end if the provider's call raised; if it sent a request the run
\* waits in the call, otherwise it has come to its end.
FormRun(s, i, m) ==
  IF m.run.requests # <<>> THEN InCreate(s, i, m) ELSE Ended(s, "form", None, i, m)

\* The visitor submits the form with day_input, and random.choice draws i
\* if the run comes to it; a run of the session that is waiting ends there.
SubmitForm(s, day_input, i) ==
  /\ screen[s].form
  /\ FormRun(s, i, main(session_state[s], TRUE, day_input, i, CHOOSE r \in Raises : TRUE))

\* The run of the answered call up to its next wait: m is the run as it will
\* end; if it renders a poem it waits after the first frame, otherwise
\* (get_poem failed, or returned no text) it has come to its end.
AnswerRun(s, i, m) ==
  IF m.screen.result # <<>> THEN InSleep(s, i, 1, m) ELSE Ended(s, "form", None, i, m)

\* The provider answers the call of session s with resp, and the run goes on.
Answer(s, resp) ==
  /\ run[s].at = "create"
  /\ AnswerRun(s, run[s].choice,
               main(session_state[s], TRUE, run[s].day_input, run[s].choice, resp))

\* The run after a sleep: the next frame and its sleep, or, after the last
\* character's, the final render, with which the run ends as m.
TypeRun(s, i, k, m) ==
  IF k < Len(m.run.ret[1][1]) THEN InSleep(s, i, k + 1, m) ELSE Ended(s, "form", None, i, m)

\* The sleep after a frame of session s is over, and the run goes on.
Type(s) ==
  /\ run[s].at = "sleep"
  /\ TypeRun(s, run[s].choice, run[s].frames,
             main(session_state[s], TRUE, run[s].day_input, run[s].choice,
                  run[s].answers[1]))

\* The indices random.choice can draw in the run of a form submitted with
\* day_input: one of choices if get_poem is called and finds an API key,
\* and none (0) if the run does not come to draw one.
Draws(choices, day_input) ==
  IF strip(day_input) # <<>> /\ TruthyStr(lookup_str("OPENAI_API_KEY"))
  THEN choices ELSE {0}

\* The steps of the sessions, the inputs of each from the given set: the
\* password typed, the text submitted, the index drawn, the provider's answer.
NextWith(passwords, day_inputs, choices, responses) ==
  \/ \E s \in Sessions : Connect(s)
  \/ \E s \in Sessions : Rerun(s)
  \/ \E s \in Sessions, v \in passwords : SubmitPassword(s, v)
  \/ \E s \in Sessions, d \in day_inputs :
       \E i \in Draws(choices, d) : SubmitForm(s, d, i)
  \/ \E s \in Sessions, r \in responses : Answer(s, r)
  \/ \E s \in Sessions : Type(s)

\* Any step of a session, with any input.
Next == NextWith(Passwords, DayInputs, Choices, Responses)

\* One session of the application.
Spec == Init /\ [][Next]_vars

\* Several sessions on one server process with a password configured, each
\* with fewer inputs.
InitMulti ==
  /\ env \in {e \in Environments : e.APP_PASSWORD = Some("a") /\ e.POEM_SYSTEM_PROMPT = None}
  /\ secrets \in {c \in SecretStores : ~c.available}
  /\ InitSessions(1..NumSessions)

\* Any step of any of the sessions.
NextMulti ==
  NextWith({"a", "c"}, {<<>>, <<"x">>}, {8},
           {r \in Raises : r.exc.text # <<>>} \cup Responds({Some(<<"a">>)}))

\* NumSessions sessions of the application, their steps interleaved.
SpecMulti == InitMulti /\ [][NextMulti]_vars

\* ------------------------------------------------------------------ claims
\* The password the gate compares with.
ConfiguredPassword == lookup_str("APP_PASSWORD")

\* The API key get_poem uses.
ConfiguredKey == lookup_str("OPENAI_API_KEY")

\* The session's password_correct flag is set and True.
Authenticated(s) == session_state[s].password_correct = Some(TRUE)

\* The text is empty or whitespace only.
Blank(t) == \A j \in DOMAIN t : t[j] \in Whitespace

\* The last run of s handles a form submission with a text that is not blank.
SubmittedText(s) ==
  run[s].event = "form" /\ run[s].submitted /\ ~Blank(run[s].day_input)

\* The last run of s has come to its end.
AtEnd(s) == run[s].at = "end"

\* C1: once a password equal to the configured one is submitted, the gate is
\* Unlocked on that run, and a session whose gate is Unlocked is Unlocked
\* after every later step, whatever the event.
C1_UnlockedIsTerminal ==
  [][\A s \in Sessions :
       /\ (run'[s].event = "password" /\ run'[s].typed = ConfiguredPassword)
            => (run'[s].gate = "Unlocked" /\ Authenticated(s)')
       /\ run[s].gate = "Unlocked"
            => (run'[s].gate = "Unlocked" /\ Authenticated(s)')]_vars

\* C1 witness: a session still Unlocked on a rerun after a generation failed.
C1_Witness ==
  \E s \in Sessions :
    /\ run[s].gate = "Unlocked" /\ run[s].event = "rerun"
    /\ failed[s]

\* C2: after a password that differs from the configured one, the gate is
\* Locked with the incorrect flag and error, and the "password" key of the
\* session state holds no submitted value (it is absent or the empty default).
C2_WrongPasswordNotRetained ==
  \A s \in Sessions :
    (run[s].event = "password" /\ run[s].typed # ConfiguredPassword)
      => /\ run[s].gate = "Locked"
         /\ session_state[s].password_correct = Some(FALSE)
         /\ screen[s].messages = <<IncorrectError>>
         /\ session_state[s].password \in {None, Some("")}

\* C3: with APP_PASSWORD absent or empty every run ends Misconfigured: no
\* input, no form, no password comparison, password_correct never set.
C3_MisconfiguredNeverUnlocks ==
  ~TruthyStr(ConfiguredPassword) =>
    \A s \in Sessions :
      run[s].event # "none" =>
        /\ run[s].gate = "Misconfigured"
        /\ run[s].event \in {"connect", "rerun"}
        /\ session_state[s].password_correct = None
        /\ ~screen[s].password_input /\ ~screen[s].form
        /\ screen[s].messages = <<NotSetWarning>>

\* C3 witness: the password is set to the empty string, and a session has
\* rerun the page.
C3_Witness ==
  /\ env.APP_PASSWORD = Some("") /\ ~TruthyStr(ConfiguredPassword)
  /\ \E s \in Sessions : run[s].event = "rerun"

\* C4: the form, a call of get_poem, a request to the provider (in flight or
\* answered) or a rendered poem exist only in a session whose flag is true
\* and whose gate is Unlocked.
C4_GenerationOnlyWhenAuthenticated ==
  \A s \in Sessions :
    ( \/ screen[s].form \/ run[s].submitted \/ run[s].get_poem_called
      \/ run[s].requests # <<>> \/ screen[s].result # <<>> \/ ~AtEnd(s) )
      => (Authenticated(s) /\ run[s].gate = "Unlocked")

\* C4 witness: a session that sent a request and shows a poem.
C4_Witness ==
  \E s \in Sessions : run[s].requests # <<>> /\ screen[s].result # <<>> /\ AtEnd(s)

\* C5: a submission whose text is empty or whitespace only does not call
\* get_poem, sends nothing, and ends with the informational message alone.
C5_BlankInputNotSent ==
  \A s \in Sessions :
    (run[s].event = "form" /\ Blank(run[s].day_input))
      => /\ ~run[s].get_poem_called
         /\ run[s].requests = <<>>
         /\ AtEnd(s)
         /\ screen[s].messages = <<EmptyInputInfo>>
         /\ screen[s].result = <<>>

\* C5 witness: a submission of a tab alone.
C5_Witness ==
  \E s \in Sessions : run[s].event = "form" /\ run[s].day_input = <<"\t">>

\* str.format raises at no part of the template get_poem formats when the
\* poet is p: no part names a position or another keyword, and the table of
\* a part with one holds a text for p.
TemplateFormats(p) ==
  \A j \in DOMAIN system_prompt_template :
    /\ system_prompt_template[j].kind \in {"literal", "poet", "other"}
    /\ system_prompt_template[j].kind = "other"
         => system_prompt_template[j].table[p].exc = None

\* The poet random.choice drew in the last run of s.
DrawnPoet(s) == IF poets # <<>> THEN poets[run[s].choice] ELSE "Unknown Poet"

\* C6 as claimed: every submission of a text that is not blank sends exactly
\* one request, whatever the configuration.
C6_ExactlyOneCallAlways ==
  \A s \in Sessions :
    (SubmittedText(s) /\ Authenticated(s)) => Len(run[s].requests) = 1

\* C6 amended: such a submission sends exactly one request when an API key
\* is configured and the template formats with the poet drawn, and none
\* otherwise; without a key it shows the key error.
C6_OneCallWhenConfigured ==
  \A s \in Sessions :
    (SubmittedText(s) /\ Authenticated(s))
      => /\ run[s].get_poem_called
         /\ Len(run[s].requests) =
              IF TruthyStr(ConfiguredKey) /\ TemplateFormats(DrawnPoet(s)) THEN 1 ELSE 0
         /\ ~TruthyStr(ConfiguredKey) =>
              /\ Len(screen[s].messages) = 1
              /\ screen[s].messages[1].kind = "error"

\* C6 witness: a submission whose one request the provider failed.
C6_Witness ==
  \E s \in Sessions :
    /\ SubmittedText(s) /\ Len(run[s].requests) = 1
    /\ run[s].answers # <<>> /\ run[s].answers[1].kind = "raise"

\* The request of the last run of s failed: the call raised, or its response
\* has no choice to read.
ExternalCallFailed(s) ==
  /\ run[s].answers # <<>>
  /\ run[s].answers[1].kind = "raise" \/ run[s].answers[1].choices = <<>>

\* str(e) of the failure of the request.
FailureText(answer) ==
  IF answer.kind = "raise" THEN answer.exc.text ELSE <<"list index out of range">>

\* The values a returned pair carries.
Carried(ret) == {ret[j] : j \in {k \in DOMAIN ret : ret[k] # None}}

\* C7 as claimed: when the request fails get_poem raises nothing and the
\* value it returns carries a description of the failure.
C7_ReturnCarriesDescription ==
  \A s \in Sessions :
    ExternalCallFailed(s) => (run[s].raised = None /\ Carried(run[s].ret) # {})

\* C7 amended: when the request fails get_poem raises nothing, returns
\* (None, None), which carries nothing, and shows one error message made of
\* "Error generating poem: " and the text of the failure; the run ends there.
C7_FailureShownNotReturned ==
  \A s \in Sessions :
    ExternalCallFailed(s)
      => /\ run[s].raised = None
         /\ run[s].ret = <<None, None>>
         /\ AtEnd(s)
         /\ screen[s].messages =
              << Error(<<"Error generating poem: ">> \o FailureText(run[s].answers[1])) >>
         /\ screen[s].result = <<>>

\* C7 witness: the provider raised an exception that is not one of its own
\* and whose text is empty.
C7_Witness ==
  \E s \in Sessions :
    /\ ExternalCallFailed(s) /\ run[s].answers[1].kind = "raise"
    /\ run[s].answers[1].exc.mro[1] = "builtins.RuntimeError"
    /\ run[s].answers[1].exc.text = <<>>

\* C8: after a wrong password the password input is shown and takes another
\* submission; after an empty input, a missing key or a failed generation
\* the run has ended, the session's password_correct flag is still true,
\* and the form is shown and takes another submission.
C8_FailuresAreRetryable ==
  \A s \in Sessions :
    /\ "wrong_password" \in Failures(run[s])
         => /\ screen[s].password_input
            /\ ENABLED (\E v \in Passwords : SubmitPassword(s, v))
    /\ Failures(run[s]) \ {"wrong_password"} # {}
         => /\ screen[s].form /\ Authenticated(s) /\ AtEnd(s)
            /\ ENABLED (\E d \in DayInputs : \E i \in Draws(Choices, d) :
                          SubmitForm(s, d, i))

\* C8 witness: a session that shows a poem after a failed generation.
C8_Witness ==
  \E s \in Sessions :
    /\ failed[s]
    /\ run[s].event = "form" /\ AtEnd(s) /\ screen[s].result # <<>>

\* The request of the last run of s succeeded with a completion text.
Succeeded(s) ==
  /\ run[s].answers # <<>>
  /\ run[s].answers[1].kind = "response"
  /\ run[s].answers[1].choices # <<>>
  /\ run[s].answers[1].choices[1] # None

CompletionText(s) == run[s].answers[1].choices[1][1]

\* get_poem returned the completion text with a persona of the list, the one
\* the system instruction of the request was formatted with.
ReturnedTextAndPersona(s) ==
  /\ Len(run[s].ret) = 2
  /\ run[s].ret[1] = Some(CompletionText(s))
  /\ run[s].ret[2] = Some(DrawnPoet(s))
  /\ run[s].requests[1].messages[1].content = system_instruction(run[s].ret[2][1]).value

\* The persona's name is in the system instruction of the request.
PersonaSubstituted(s) ==
  Contains(run[s].requests[1].messages[1].content, run[s].ret[2])

\* The template get_poem formats has a {poet} field.
HasPoetField ==
  \E j \in DOMAIN system_prompt_template : system_prompt_template[j].kind = "poet"

\* C9 as claimed: on success get_poem returns the text T with the persona P
\* substituted into the system instruction, and the result area ends holding
\* T and "- P".
C9_PoemAndAttributionRendered ==
  \A s \in Sessions :
    Succeeded(s)
      => /\ ReturnedTextAndPersona(s)
         /\ PersonaSubstituted(s)
         /\ AtEnd(s) =>
              /\ Contains(screen[s].result, CompletionText(s))
              /\ Contains(screen[s].result, <<"- ">> \o run[s].ret[2])

\* C9 amended: on success get_poem returns T with the persona P the system
\* instruction was formatted with, whose name is in the instruction if the
\* template has a {poet} field; if T is empty nothing is rendered;
\* otherwise, while the run reveals T, the result area holds the characters
\* revealed so far without attribution, and when the run ends it holds T
\* (in both, every newline replaced by <br>) and "- P".
C9_PoemHtmlAndAttributionRendered ==
  \A s \in Sessions :
    Succeeded(s)
      => /\ ReturnedTextAndPersona(s)
         /\ HasPoetField => PersonaSubstituted(s)
         /\ IF CompletionText(s) = <<>>
            THEN AtEnd(s) /\ screen[s].result = <<>> /\ screen[s].messages = <<>>
            ELSE IF AtEnd(s)
            THEN /\ Contains(screen[s].result, replace_newlines(CompletionText(s)))
                 /\ Contains(screen[s].result, <<"- ">> \o run[s].ret[2])
            ELSE /\ run[s].frames \in 1..Len(CompletionText(s))
                 /\ Contains(screen[s].result,
                             replace_newlines(SubSeq(CompletionText(s), 1, run[s].frames)))
                 /\ ~Contains(screen[s].result, <<"- ">>)

\* C9 witness: the reveal of a poem with a newline in it has come to its end.
C9_Witness ==
  \E s \in Sessions :
    /\ Succeeded(s) /\ CompletionText(s) = <<"\n">>
    /\ AtEnd(s) /\ screen[s].result # <<>>

\* The state of session s: its session state, its page and its last run.
SessionOf(s) == <<session_state[s], screen[s], run[s]>>

\* C10: a step changes the state of at most one session, and never the
\* configuration: no event of a session changes another's flags or request.
C10_SessionsIndependent ==
  [][/\ env' = env /\ secrets' = secrets
     /\ \A s, t \in Sessions :
          (s # t /\ SessionOf(s)' # SessionOf(s)) => SessionOf(t)' = SessionOf(t)]_vars

\* C10 witness: one session is unlocked with its request in flight while
\* another has just been refused a wrong password.
C10_Witness ==
  \E s, t \in Sessions :
    /\ s # t
    /\ Authenticated(s) /\ run[s].at = "create" /\ run[s].requests # <<>>
    /\ run[t].event = "password" /\ run[t].gate = "Locked" /\ ~Authenticated(t)

====
